---- MODULE Spec2Model ----
(***************************************************************************)
(* StockFlow inventory management: the product-creation handler            *)
(* (routes/products.js), the low-stock alert handlers (routes/alerts.js)   *)
(* and the tables they read and write (models/index.js), as a state        *)
(* machine over the committed database, the open transactions and the      *)
(* position of every request handler.                                      *)
(*                                                                         *)
(* One action is one stretch of handler code between two awaits, together  *)
(* with the database operation the first await waits for.                  *)
(***************************************************************************)
EXTENDS Integers, Sequences, FiniteSets, TLC

(***************************************************************************)
(* Bounds of the model.                                                    *)
(***************************************************************************)
\* concurrent POST /api/products requests
NumCalls == 2

Calls == 1..NumCalls

(***************************************************************************)
(* Values.                                                                 *)
(***************************************************************************)
\* SQL NULL in a nullable integer column
NULL == -1
\* a key that is missing from the request body (JavaScript undefined)
Undefined == -1

\* Joi .default(10) of lowStockThreshold
JoiDefaultThreshold == 10

(***************************************************************************)
(* Tables that no handler writes: companies, warehouses, categories,       *)
(* suppliers.  Rows carry the columns the handlers read.                   *)
(***************************************************************************)
Company ==
    { [id |-> 1, isActive |-> TRUE],
      [id |-> 2, isActive |-> TRUE],
      [id |-> 3, isActive |-> FALSE] }

Warehouse ==
    { [id |-> 1, companyId |-> 1, isActive |-> TRUE],
      [id |-> 2, companyId |-> 2, isActive |-> TRUE],
      [id |-> 3, companyId |-> 1, isActive |-> FALSE] }

ProductCategory ==
    { [id |-> 1, name |-> "Accessories", lowStockThreshold |-> 20],
      [id |-> 2, name |-> "Hardware", lowStockThreshold |-> NULL] }

Supplier ==
    { [id |-> 1, name |-> "Widget Supplier Corp",
       contactEmail |-> "orders@widgetsupplier.com",
       leadTimeDays |-> 7, isActive |-> TRUE],
      [id |-> 2, name |-> "Gadget Supply",
       contactEmail |-> "sales@gadgetsupply.com",
       leadTimeDays |-> 14, isActive |-> FALSE] }

(***************************************************************************)
(* State.                                                                  *)
(***************************************************************************)
VARIABLES
    products,     \* committed rows of table products
    inventory,    \* committed rows of table inventory
    movements,    \* committed rows of table inventory_movements
    sales,        \* committed rows of table sales_data
    nextId,       \* AUTO_INCREMENT counters of the three written tables
    pc,           \* position of each POST /api/products handler
    req,          \* its request: req.user and req.body
    tx,           \* its transaction: state and uncommitted rows
    loc,          \* its locals: product.id, inventory.id, the caught error
    res,          \* the response it has sent
    reader        \* the GET handler in progress, or the last response of one

dbVars == <<products, inventory, movements, sales, nextId>>
callVars == <<pc, req, tx, loc, res>>
vars == <<products, inventory, movements, sales, nextId,
          pc, req, tx, loc, res, reader>>

(***************************************************************************)
(* Requests.                                                               *)
(***************************************************************************)
\* req.user as the auth middleware attaches it
User(id, companyId) == [id |-> id, companyId |-> companyId]

\* req.body, with the keys of createProductSchema that the handler uses
Body(name, sku, price, categoryId, supplierId, lowStockThreshold, warehouseId, initialQuantity) ==
    [name |-> name, sku |-> sku, price |-> price, categoryId |-> categoryId,
     supplierId |-> supplierId, lowStockThreshold |-> lowStockThreshold,
     warehouseId |-> warehouseId, initialQuantity |-> initialQuantity]

Request(user, body) == [user |-> user, body |-> body]

NoRequest == Request(User(0, 0), Body("", "", 0, 0, 0, 0, 0, 0))

Alice == User(11, 1)
Bob == User(22, 2)

\* The requests a client sends: fresh and taken SKUs, every kind of
\* warehouse reference, valid and dangling category and supplier
\* references, and a body that violates several schema keys.
Requests ==
    { Request(Alice, Body("Widget", "A", 100, Undefined, Undefined, Undefined, 1, 15)),
      Request(Alice, Body("Widget", "A", 100, 1, 1, 5, 1, 0)),
      Request(Bob,   Body("Widget", "A", 100, Undefined, Undefined, Undefined, 2, 15)),
      Request(Alice, Body("Widget", "B", 100, 1, Undefined, Undefined, 1, 15)),
      Request(Alice, Body("Widget", "S0", 100, Undefined, Undefined, Undefined, 1, 15)),
      Request(Bob,   Body("Widget", "S0", 100, Undefined, Undefined, Undefined, 1, 15)),
      Request(Alice, Body("Widget", "B", 100, Undefined, Undefined, Undefined, 3, 15)),
      Request(Alice, Body("Widget", "S0", 100, Undefined, Undefined, Undefined, 4, 15)),
      Request(Alice, Body("Widget", "A", 100, 9, Undefined, Undefined, 1, 15)),
      Request(Alice, Body("", "S0", 0, Undefined, Undefined, Undefined, 4, -5)) }

\* The requests that race with a reader of the product list.
ReadRequests ==
    { Request(Alice, Body("Widget", "A", 100, Undefined, Undefined, Undefined, 1, 15)),
      Request(Bob,   Body("Widget", "A", 100, Undefined, Undefined, Undefined, 2, 15)),
      Request(Alice, Body("Widget", "B", 100, 1, Undefined, Undefined, 1, 0)) }

\* The requests of two tenants: for one fresh SKU, for the SKU of a live
\* product and for that of a retired one, for the other tenant's warehouse,
\* with a companyId of the other tenant among the keys of the body, with
\* the inactive supplier 2 and with a supplier that does not exist.
TenantRequests ==
    { Request(Alice, Body("Widget", "A", 100, Undefined, Undefined, Undefined, 1, 15)),
      Request(Alice, Body("Widget", "A", 100, Undefined, 2, Undefined, 1, 15)),
      Request(Alice, Body("Widget", "A", 100, Undefined, 9, Undefined, 1, 15)),
      Request(Bob,   Body("Widget", "A", 100, Undefined, Undefined, Undefined, 2, 15)),
      Request(Bob,   Body("Widget", "R", 100, Undefined, Undefined, Undefined, 2, 15)),
      Request(Alice, Body("Widget", "C", 100, Undefined, Undefined, Undefined, 2, 15)),
      Request(Bob,   Body("Widget", "S0", 100, Undefined, Undefined, Undefined, 2, 15)),
      Request(Alice, Body("Widget", "C", 100, Undefined, Undefined, Undefined, 1, 15)
                     @@ [companyId |-> 2]) }

(***************************************************************************)
(* createProductSchema.validate(req.body)                                  *)
(***************************************************************************)
SchemaKeys ==
    <<"name", "sku", "price", "categoryId", "supplierId",
      "lowStockThreshold", "warehouseId", "initialQuantity">>

\* does the body violate the rule of key k
Violates(body, k) ==
    CASE k = "name" -> body.name = ""
      [] k = "sku" -> body.sku = ""
      [] k = "price" -> body.price <= 0
      [] k = "categoryId" -> body.categoryId # Undefined /\ body.categoryId <= 0
      [] k = "supplierId" -> body.supplierId # Undefined /\ body.supplierId <= 0
      [] k = "lowStockThreshold" ->
            body.lowStockThreshold # Undefined /\ body.lowStockThreshold < 0
      [] k = "warehouseId" -> body.warehouseId <= 0
      [] k = "initialQuantity" -> body.initialQuantity < 0

\* every key of the schema that the body violates, in schema order
ViolatedKeys(body) == SelectSeq(SchemaKeys, LAMBDA k : Violates(body, k))

\* the keys of the body that the schema does not name
UnknownKeys(body) == DOMAIN body \ { SchemaKeys[n] : n \in 1..Len(SchemaKeys) }

\* Joi's validate with its default options: abortEarly is true, so the
\* error carries the first violation only, and allowUnknown is false, so a
\* key outside the schema is a violation, found after those of the schema's
\* own keys; value has the defaults filled in
Validate(body) ==
    [error |-> IF ViolatedKeys(body) # <<>> THEN <<Head(ViolatedKeys(body))>>
               ELSE IF UnknownKeys(body) # {}
                    THEN <<CHOOSE k \in UnknownKeys(body) : TRUE>>
                    ELSE <<>>,
     value |-> IF body.lowStockThreshold = Undefined
               THEN [body EXCEPT !.lowStockThreshold = JoiDefaultThreshold]
               ELSE body]

(***************************************************************************)
(* Responses.                                                              *)
(***************************************************************************)
Response(status, error, details) ==
    [status |-> status, error |-> error, details |-> details]

NoResponse == Response(0, "", <<>>)

\* a GET handler: its route, its position, req.user, the company and the
\* page it asks for, and what it has computed or sent so far
Reader(handler, at, user, companyId, page, limit, status, rows, total) ==
    [handler |-> handler, pc |-> at, user |-> user, companyId |-> companyId,
     page |-> page, limit |-> limit, status |-> status, rows |-> rows,
     total |-> total, pages |-> 0]

NoReader == Reader("none", "done", User(0, 0), 0, 0, 0, 0, <<>>, 0)

(***************************************************************************)
(* Transactions and handler locals.                                        *)
(***************************************************************************)
\* state is Sequelize's transaction.finished: "open" while undefined
Transaction(state, ps, is, ms) ==
    [state |-> state, products |-> ps, inventory |-> is, movements |-> ms]

NoTransaction == Transaction("none", {}, {}, {})

Locals(productId, inventoryId, error, pending) ==
    [productId |-> productId, inventoryId |-> inventoryId,
     error |-> error, pending |-> pending]

NoLocals == Locals(0, 0, "", NoResponse)

\* the validated body of call c
Value(c) == Validate(req[c].body).value

(***************************************************************************)
(* Rows.                                                                   *)
(***************************************************************************)
ProductRow(id, companyId, categoryId, supplierId, sku, lowStockThreshold, isActive) ==
    [id |-> id, companyId |-> companyId, categoryId |-> categoryId,
     supplierId |-> supplierId, sku |-> sku,
     lowStockThreshold |-> lowStockThreshold, isActive |-> isActive]

InventoryRow(id, productId, warehouseId, quantity, reservedQuantity) ==
    [id |-> id, productId |-> productId, warehouseId |-> warehouseId,
     quantity |-> quantity, reservedQuantity |-> reservedQuantity]

MovementRow(id, inventoryId, movementType, quantity, previousQuantity, newQuantity, referenceType, referenceId, userId) ==
    [id |-> id, inventoryId |-> inventoryId, movementType |-> movementType,
     quantity |-> quantity, previousQuantity |-> previousQuantity,
     newQuantity |-> newQuantity, referenceType |-> referenceType,
     referenceId |-> referenceId, userId |-> userId]

\* a key that is undefined in the body is stored as NULL
OrNull(v) == IF v = Undefined THEN NULL ELSE v

(***************************************************************************)
(* The database as the sample data of schema.sql leaves it: one product    *)
(* of company 1 with its stock in warehouse 1.                             *)
(***************************************************************************)
SeedProducts == { ProductRow(1, 1, 1, 1, "S0", 20, TRUE) }
SeedInventory == { InventoryRow(1, 1, 1, 8, 0) }
SeedMovements == { MovementRow(1, 1, "in", 8, 0, 8, "initial_stock", 1, 11) }

Init ==
    /\ products = SeedProducts
    /\ inventory = SeedInventory
    /\ movements = SeedMovements
    /\ sales = {}
    /\ nextId = [product |-> 2, inventory |-> 2, movement |-> 2]
    /\ pc = [c \in Calls |-> "idle"]
    /\ req = [c \in Calls |-> NoRequest]
    /\ tx = [c \in Calls |-> NoTransaction]
    /\ loc = [c \in Calls |-> NoLocals]
    /\ res = [c \in Calls |-> NoResponse]
    /\ reader = NoReader

(***************************************************************************)
(* POST /api/products                                                      *)
(***************************************************************************)
\* the README's version of the handler looks the SKU up first
ChecksSkuFirst == <<"sku", "warehouse", "create">>

\* the lookups that follow schema validation, in the order of the code,
\* and the insert they lead to
Checks == <<"warehouse", "sku", "create">>

\* the position after the lookup at position k has passed
After(k) == Checks[(CHOOSE n \in 1..Len(Checks) : Checks[n] = k) + 1]

\* sequelize.transaction(), then schema validation of the body; the calls
\* are numbered in their order of arrival
Begin(c, r) ==
    /\ pc[c] = "idle"
    /\ \A d \in Calls : d < c => pc[d] # "idle"
    /\ req' = [req EXCEPT ![c] = r]
    /\ tx' = [tx EXCEPT ![c] = Transaction("open", {}, {}, {})]
    /\ IF Validate(r.body).error # <<>>
       THEN /\ pc' = [pc EXCEPT ![c] = "rollback"]
            /\ loc' = [loc EXCEPT ![c].pending =
                          Response(400, "Validation failed", Validate(r.body).error)]
       ELSE /\ pc' = [pc EXCEPT ![c] = Head(Checks)]
            /\ loc' = loc
    /\ UNCHANGED <<dbVars, res, reader>>

\* a lookup that trusts the id alone
WarehouseFindById(id, companyId) ==
    { w \in Warehouse : w.id = id /\ w.isActive }

\* Warehouse.findOne({where: {id, companyId, isActive: true}})
WarehouseFindOne(id, companyId) ==
    { w \in Warehouse : w.id = id /\ w.companyId = companyId /\ w.isActive }

\* the warehouse check of the handler
FindWarehouse(c) ==
    /\ pc[c] = "warehouse"
    /\ IF WarehouseFindOne(Value(c).warehouseId, req[c].user.companyId) # {}
       THEN /\ pc' = [pc EXCEPT ![c] = After("warehouse")]
            /\ loc' = loc
       ELSE /\ pc' = [pc EXCEPT ![c] = "rollback"]
            /\ loc' = [loc EXCEPT ![c].pending =
                          Response(400, "Invalid warehouse", <<>>)]
    /\ UNCHANGED <<dbVars, req, tx, res, reader>>

\* Product.findOne({sku}): a consistent read of the committed rows
FindProduct(c) ==
    /\ pc[c] = "sku"
    /\ IF \E p \in products : p.sku = Value(c).sku
       THEN /\ pc' = [pc EXCEPT ![c] = "rollback"]
            /\ loc' = [loc EXCEPT ![c].pending =
                          Response(409, "SKU already exists", <<>>)]
       ELSE /\ pc' = [pc EXCEPT ![c] = After("sku")]
            /\ loc' = loc
    /\ UNCHANGED <<dbVars, req, tx, res, reader>>

\* an insert that never waits for another transaction
NeverBlocked(c, sku) == FALSE

\* the insert waits while another open transaction holds a row with the
\* same value of the unique key, and goes on when that transaction ends
Blocked(c, sku) ==
    \E d \in Calls \ {c} :
        tx[d].state = "open" /\ \E p \in tx[d].products : p.sku = sku

\* a products table without the unique key on sku
NoUniqueKey(sku) == FALSE

\* sku is unique: true; the insert fails when a committed row has the value
UniqueViolation(sku) == \E p \in products : p.sku = sku

ForeignKeyViolation(v) ==
    \/ v.categoryId # Undefined /\ ~ \E k \in ProductCategory : k.id = v.categoryId
    \/ v.supplierId # Undefined /\ ~ \E s \in Supplier : s.id = v.supplierId

\* a row that belongs to company 1 whoever the caller is
NewProductOfFirstCompany(c) ==
    ProductRow(nextId.product, 1,
               OrNull(Value(c).categoryId), OrNull(Value(c).supplierId),
               Value(c).sku, Value(c).lowStockThreshold, TRUE)

\* the row Product.create inserts
NewProduct(c) ==
    ProductRow(nextId.product, req[c].user.companyId,
               OrNull(Value(c).categoryId), OrNull(Value(c).supplierId),
               Value(c).sku, Value(c).lowStockThreshold, TRUE)

\* Product.create called without {transaction}: the row is committed at once
ProductCreateAutocommit(c) ==
    /\ pc[c] = "create"
    /\ ~ Blocked(c, Value(c).sku)
    /\ nextId' = [nextId EXCEPT !.product = @ + 1]
    /\ \/ /\ UniqueViolation(Value(c).sku)
          /\ pc' = [pc EXCEPT ![c] = "catch"]
          /\ loc' = [loc EXCEPT ![c].error = "SequelizeUniqueConstraintError"]
          /\ products' = products
       \/ /\ ForeignKeyViolation(Value(c))
          /\ pc' = [pc EXCEPT ![c] = "catch"]
          /\ loc' = [loc EXCEPT ![c].error = "SequelizeForeignKeyConstraintError"]
          /\ products' = products
       \/ /\ ~ UniqueViolation(Value(c).sku)
          /\ ~ ForeignKeyViolation(Value(c))
          /\ pc' = [pc EXCEPT ![c] = "guard"]
          /\ loc' = [loc EXCEPT ![c].productId = nextId.product]
          /\ products' = products \cup { NewProduct(c) }
    /\ UNCHANGED <<inventory, movements, sales, req, tx, res, reader>>

\* Product.create({companyId: req.user.companyId, ..., isActive: true},
\* {transaction}); when the row breaks both the unique key and a foreign
\* key, the storage engine reports either
ProductCreate(c) ==
    /\ pc[c] = "create"
    /\ ~ Blocked(c, Value(c).sku)
    /\ nextId' = [nextId EXCEPT !.product = @ + 1]
    /\ \/ /\ UniqueViolation(Value(c).sku)
          /\ pc' = [pc EXCEPT ![c] = "catch"]
          /\ loc' = [loc EXCEPT ![c].error = "SequelizeUniqueConstraintError"]
          /\ tx' = tx
       \/ /\ ForeignKeyViolation(Value(c))
          /\ pc' = [pc EXCEPT ![c] = "catch"]
          /\ loc' = [loc EXCEPT ![c].error = "SequelizeForeignKeyConstraintError"]
          /\ tx' = tx
       \/ /\ ~ UniqueViolation(Value(c).sku)
          /\ ~ ForeignKeyViolation(Value(c))
          /\ pc' = [pc EXCEPT ![c] = "guard"]
          /\ loc' = [loc EXCEPT ![c].productId = nextId.product]
          /\ tx' = [tx EXCEPT ![c].products = { NewProduct(c) }]
    /\ UNCHANGED <<products, inventory, movements, sales, req, res, reader>>

\* Inventory.findOne({productId: product.id, warehouseId}): the committed
\* rows and the rows of the transaction itself
FindInventory(c) ==
    /\ pc[c] = "guard"
    /\ IF \E i \in inventory \cup tx[c].inventory :
             i.productId = loc[c].productId /\ i.warehouseId = Value(c).warehouseId
       THEN /\ pc' = [pc EXCEPT ![c] = "rollback"]
            /\ loc' = [loc EXCEPT ![c].pending =
                          Response(409, "Inventory already exists", <<>>)]
       ELSE /\ pc' = [pc EXCEPT ![c] = "inventory"]
            /\ loc' = loc
    /\ UNCHANGED <<dbVars, req, tx, res, reader>>

\* the unique index on (product_id, warehouse_id): the insert waits while
\* another open transaction holds a row of the pair
InventoryBlocked(c, productId, warehouseId) ==
    \E d \in Calls \ {c} :
        /\ tx[d].state = "open"
        /\ \E i \in tx[d].inventory :
              i.productId = productId /\ i.warehouseId = warehouseId

\* an index on warehouse_id alone: one inventory row for each warehouse
InventoryUniquePerWarehouse(productId, warehouseId) ==
    \E i \in inventory : i.warehouseId = warehouseId

\* and fails when a committed row has the pair
InventoryUniqueViolation(productId, warehouseId) ==
    \E i \in inventory : i.productId = productId /\ i.warehouseId = warehouseId

\* an insert of stock for the seed product into a table without the index
InventoryCreateOfSeed(c) ==
    /\ pc[c] = "inventory"
    /\ nextId' = [nextId EXCEPT !.inventory = @ + 1]
    /\ tx' = [tx EXCEPT ![c].inventory =
                 { InventoryRow(nextId.inventory, 1,
                                Value(c).warehouseId, Value(c).initialQuantity, 0) }]
    /\ loc' = [loc EXCEPT ![c].inventoryId = nextId.inventory]
    /\ pc' = [pc EXCEPT ![c] = "movement"]
    /\ UNCHANGED <<products, inventory, movements, sales, req, res, reader>>

\* Inventory.create({productId, warehouseId, quantity, reservedQuantity: 0},
\* {transaction})
InventoryCreate(c) ==
    /\ pc[c] = "inventory"
    /\ ~ InventoryBlocked(c, loc[c].productId, Value(c).warehouseId)
    /\ nextId' = [nextId EXCEPT !.inventory = @ + 1]
    /\ IF InventoryUniqueViolation(loc[c].productId, Value(c).warehouseId)
       THEN /\ pc' = [pc EXCEPT ![c] = "catch"]
            /\ loc' = [loc EXCEPT ![c].error = "SequelizeUniqueConstraintError"]
            /\ tx' = tx
       ELSE /\ pc' = [pc EXCEPT ![c] = "movement"]
            /\ loc' = [loc EXCEPT ![c].inventoryId = nextId.inventory]
            /\ tx' = [tx EXCEPT ![c].inventory =
                         { InventoryRow(nextId.inventory, loc[c].productId,
                                        Value(c).warehouseId,
                                        Value(c).initialQuantity, 0) }]
    /\ UNCHANGED <<products, inventory, movements, sales, req, res, reader>>

\* a movement that records the new quantity as the previous one too
InitialMovementNoPrevious(id, inventoryId, initialQuantity, productId, userId) ==
    MovementRow(id, inventoryId, "in", initialQuantity, initialQuantity,
                initialQuantity, "initial_stock", productId, userId)

\* the values of the audit row of the initial stock
InitialMovement(id, inventoryId, initialQuantity, productId, userId) ==
    MovementRow(id, inventoryId, "in", initialQuantity, 0,
                initialQuantity, "initial_stock", productId, userId)

\* InventoryMovement.create({inventoryId, movementType: 'in', ...})
MovementCreate(c) ==
    /\ pc[c] = "movement"
    /\ nextId' = [nextId EXCEPT !.movement = @ + 1]
    /\ tx' = [tx EXCEPT ![c].movements =
                 { InitialMovement(nextId.movement, loc[c].inventoryId,
                                   Value(c).initialQuantity,
                                   loc[c].productId, req[c].user.id) }]
    /\ pc' = [pc EXCEPT ![c] = "commit"]
    /\ UNCHANGED <<products, inventory, movements, sales, req, loc, res, reader>>

\* a commit that writes the movements of the transaction over the table
CommitOverMovements(c) ==
    /\ pc[c] = "commit"
    /\ products' = products \cup tx[c].products
    /\ inventory' = inventory \cup tx[c].inventory
    /\ movements' = tx[c].movements
    /\ tx' = [tx EXCEPT ![c] = Transaction("commit", {}, {}, {})]
    /\ res' = [res EXCEPT ![c] = Response(201, "", <<>>)]
    /\ pc' = [pc EXCEPT ![c] = "done"]
    /\ UNCHANGED <<sales, nextId, req, loc, reader>>

\* transaction.commit(), then the 201 response
Commit(c) ==
    /\ pc[c] = "commit"
    /\ products' = products \cup tx[c].products
    /\ inventory' = inventory \cup tx[c].inventory
    /\ movements' = movements \cup tx[c].movements
    /\ tx' = [tx EXCEPT ![c] = Transaction("commit", {}, {}, {})]
    /\ res' = [res EXCEPT ![c] = Response(201, "", <<>>)]
    /\ pc' = [pc EXCEPT ![c] = "done"]
    /\ UNCHANGED <<sales, nextId, req, loc, reader>>

\* an early return that leaves the transaction open
RollbackForgotten(c) ==
    /\ pc[c] = "rollback"
    /\ pc' = [pc EXCEPT ![c] = "respond"]
    /\ UNCHANGED <<dbVars, req, tx, loc, res, reader>>

\* transaction.rollback() of a failed check
Rollback(c) ==
    /\ pc[c] = "rollback"
    /\ tx' = [tx EXCEPT ![c] = Transaction("rollback", {}, {}, {})]
    /\ pc' = [pc EXCEPT ![c] = "respond"]
    /\ UNCHANGED <<dbVars, req, loc, res, reader>>

\* return res.status(...).json(...) of a failed check
Respond(c) ==
    /\ pc[c] = "respond"
    /\ res' = [res EXCEPT ![c] = loc[c].pending]
    /\ pc' = [pc EXCEPT ![c] = "done"]
    /\ UNCHANGED <<dbVars, req, tx, loc, reader>>

\* a query of the open transaction fails in the storage layer
QueryFails(c) ==
    /\ pc[c] \in {"warehouse", "sku", "create", "guard", "inventory", "movement"}
    /\ loc' = [loc EXCEPT ![c].error = "SequelizeDatabaseError"]
    /\ pc' = [pc EXCEPT ![c] = "catch"]
    /\ UNCHANGED <<dbVars, req, tx, res, reader>>

\* transaction.commit() fails: Sequelize marks the transaction finished and
\* drops its connection, and the rows of the transaction are lost
CommitFails(c) ==
    /\ pc[c] = "commit"
    /\ tx' = [tx EXCEPT ![c] = Transaction("commit", {}, {}, {})]
    /\ loc' = [loc EXCEPT ![c].error = "SequelizeDatabaseError"]
    /\ pc' = [pc EXCEPT ![c] = "catch"]
    /\ UNCHANGED <<dbVars, req, res, reader>>

\* catch (error) { await transaction.rollback(); ... }: rollback of a
\* finished transaction throws, and the handler ends without a response
CatchRollback(c) ==
    /\ pc[c] = "catch"
    /\ IF tx[c].state = "open"
       THEN /\ tx' = [tx EXCEPT ![c] = Transaction("rollback", {}, {}, {})]
            /\ pc' = [pc EXCEPT ![c] = "report"]
       ELSE /\ tx' = tx
            /\ pc' = [pc EXCEPT ![c] = "rejected"]
    /\ UNCHANGED <<dbVars, req, loc, res, reader>>

\* a catch block that reports every error alike
CatchResponseGeneric(name) == Response(500, "Internal server error", <<>>)

\* the response the catch block chooses by error.name
CatchResponse(name) ==
    IF name = "SequelizeUniqueConstraintError"
    THEN Response(409, "Duplicate entry", <<>>)
    ELSE IF name = "SequelizeForeignKeyConstraintError"
    THEN Response(400, "Invalid reference", <<>>)
    ELSE Response(500, "Internal server error", <<>>)

CatchRespond(c) ==
    /\ pc[c] = "report"
    /\ res' = [res EXCEPT ![c] = CatchResponse(loc[c].error)]
    /\ pc' = [pc EXCEPT ![c] = "done"]
    /\ UNCHANGED <<dbVars, req, tx, loc, reader>>

(***************************************************************************)
(* GET /api/products with the default query: page 1, limit 50, no search   *)
(***************************************************************************)
ListLimit == 50

RECURSIVE NewestFirst(_)
\* order: [['createdAt', 'DESC']]; ids grow with the time of creation
NewestFirst(rows) ==
    IF rows = {} THEN <<>>
    ELSE LET r == CHOOSE x \in rows : \A y \in rows : y.id <= x.id
         IN <<r>> \o NewestFirst(rows \ {r})

\* Product.findAndCountAll({where: {companyId, isActive: true},
\* limit, offset, order, include: inventory})
FindAndCountAll(companyId) ==
    LET found == { p \in products : p.companyId = companyId /\ p.isActive }
        joined == { [id |-> p.id, sku |-> p.sku,
                     inventory |-> { i \in inventory : i.productId = p.id }] :
                    p \in found }
        sorted == NewestFirst(joined)
    IN [count |-> Cardinality(found),
        rows |-> SubSeq(sorted, 1, IF Len(sorted) < ListLimit THEN Len(sorted)
                                   ELSE ListLimit)]

ListProducts(user) ==
    /\ reader.pc = "done"
    /\ reader' = Reader("list", "done", user, user.companyId, 1, ListLimit, 200,
                        FindAndCountAll(user.companyId).rows,
                        FindAndCountAll(user.companyId).count)
    /\ UNCHANGED <<dbVars, callVars>>

\* the steps of a handler after its first
Step(c) ==
    \/ FindWarehouse(c)
    \/ FindProduct(c)
    \/ ProductCreate(c)
    \/ FindInventory(c)
    \/ InventoryCreate(c)
    \/ MovementCreate(c)
    \/ Commit(c)
    \/ Rollback(c)
    \/ Respond(c)
    \/ QueryFails(c)
    \/ CommitFails(c)
    \/ CatchRollback(c)
    \/ CatchRespond(c)

(***************************************************************************)
(* Spec: concurrent product creation.                                      *)
(***************************************************************************)
Next ==
    \/ \E c \in Calls : \E r \in Requests : Begin(c, r)
    \/ \E c \in Calls : Step(c)

Spec == Init /\ [][Next]_vars

(***************************************************************************)
(* SpecRead: product creation racing with readers of the product list.     *)
(***************************************************************************)
NextRead ==
    \/ \E c \in Calls : \E r \in ReadRequests : Begin(c, r)
    \/ \E c \in Calls : Step(c)
    \/ \E user \in {Alice, Bob} : ListProducts(user)

SpecRead == Init /\ [][NextRead]_vars

(***************************************************************************)
(* SpecTenant: product creation by the callers of two companies.           *)
(***************************************************************************)
\* the seed and a product of company 1 that was retired: is_active FALSE,
\* its stock rows deleted
TenantProducts == SeedProducts \cup { ProductRow(2, 1, NULL, NULL, "R", 10, FALSE) }

InitTenant ==
    /\ products = TenantProducts
    /\ inventory = SeedInventory
    /\ movements = SeedMovements
    /\ sales = {}
    /\ nextId = [product |-> 3, inventory |-> 2, movement |-> 2]
    /\ pc = [c \in Calls |-> "idle"]
    /\ req = [c \in Calls |-> NoRequest]
    /\ tx = [c \in Calls |-> NoTransaction]
    /\ loc = [c \in Calls |-> NoLocals]
    /\ res = [c \in Calls |-> NoResponse]
    /\ reader = NoReader

NextTenant ==
    \/ \E c \in Calls : \E r \in TenantRequests : Begin(c, r)
    \/ \E c \in Calls : Step(c)

SpecTenant == InitTenant /\ [][NextTenant]_vars

(***************************************************************************)
(* Table sales_data.  No handler writes it: sales facts arrive from         *)
(* outside, as the sample data of schema.sql does.  Dates are whole days.   *)
(***************************************************************************)
\* sales facts that arrive in one behaviour
MaxSales == 1

\* new Date(): the day on which the alert handlers run
Today == 0

\* setDate(getDate() - 30)
RecentDays == 30

\* the parameter :thirtyDaysAgo of the three queries
ThirtyDaysAgo == Today - RecentDays

SaleRow(id, productId, warehouseId, quantitySold, saleDate) ==
    [id |-> id, productId |-> productId, warehouseId |-> warehouseId,
     quantitySold |-> quantitySold, saleDate |-> saleDate]

\* the sale dates that arrive: the first day of the window and the day before
SaleDates == { ThirtyDaysAgo, ThirtyDaysAgo - 1 }

\* INSERT INTO sales_data: a sale of a product in a warehouse that stocks it
IngestSale(productId, warehouseId, quantitySold, saleDate) ==
    /\ Cardinality(sales) < MaxSales
    /\ \E i \in inventory : i.productId = productId /\ i.warehouseId = warehouseId
    /\ sales' = sales \cup { SaleRow(Cardinality(sales) + 1, productId,
                                     warehouseId, quantitySold, saleDate) }
    /\ UNCHANGED <<products, inventory, movements, nextId, callVars, reader>>

(***************************************************************************)
(* The SQL of routes/alerts.js, query by query.                            *)
(***************************************************************************)
\* the literal 10 of COALESCE(..., 10)
FallbackThreshold == 10

RECURSIVE Coalesce(_)
\* COALESCE: the first value of the list that is not NULL
Coalesce(vals) ==
    IF vals = <<>> THEN NULL
    ELSE IF Head(vals) # NULL THEN Head(vals)
    ELSE Coalesce(Tail(vals))

\* LEFT JOIN product_categories pc ON p.category_id = pc.id, column
\* pc.low_stock_threshold: NULL when no category row joins
CategoryThreshold(p) ==
    IF \E k \in ProductCategory : k.id = p.categoryId
    THEN (CHOOSE k \in ProductCategory : k.id = p.categoryId).lowStockThreshold
    ELSE NULL

\* COALESCE(pc.name, 'Uncategorized')
CategoryName(p) ==
    IF \E k \in ProductCategory : k.id = p.categoryId
    THEN (CHOOSE k \in ProductCategory : k.id = p.categoryId).name
    ELSE "Uncategorized"

\* LEFT JOIN suppliers s ON p.supplier_id = s.id, column s.id
SupplierId(p) ==
    IF \E s \in Supplier : s.id = p.supplierId THEN p.supplierId ELSE NULL

\* LEFT JOIN suppliers s ON p.supplier_id = s.id: the supplier row joined
\* to a product, none when the product has no supplier
SupplierJoined(p) == { s \in Supplier : s.id = p.supplierId }

\* supplier: row.supplier_id ? {id, name, contact_email, lead_time_days}
\* : null; null is the empty tuple here, an object a tuple of one record
SupplierField(p) ==
    IF SupplierJoined(p) = {} THEN <<>>
    ELSE LET s == CHOOSE s \in SupplierJoined(p) : TRUE
         IN << [id |-> s.id, name |-> s.name, contact_email |-> s.contactEmail,
                lead_time_days |-> s.leadTimeDays] >>

\* (i.quantity - i.reserved_quantity)
CurrentStock(i) == i.quantity - i.reservedQuantity

\* a resolution that prefers the category's value to the product's own
CategoryFirstThreshold(p) ==
    Coalesce(<<CategoryThreshold(p), p.lowStockThreshold, FallbackThreshold>>)

\* the column threshold of lowStockQuery
SelectThreshold(p) ==
    Coalesce(<<p.lowStockThreshold, CategoryThreshold(p), FallbackThreshold>>)

\* the threshold in the WHERE clause of lowStockQuery
ListThreshold(p) ==
    Coalesce(<<p.lowStockThreshold, CategoryThreshold(p), FallbackThreshold>>)

\* the threshold in the WHERE clause of countQuery
CountThreshold(p) ==
    Coalesce(<<p.lowStockThreshold, CategoryThreshold(p), FallbackThreshold>>)

\* the threshold in the WHERE clause of summaryQuery
SummaryThreshold(p) ==
    Coalesce(<<p.lowStockThreshold, CategoryThreshold(p), FallbackThreshold>>)

\* the sales of the pair that the subqueries select
RecentSales(productId, warehouseId) ==
    { s \in sales : /\ s.productId = productId
                    /\ s.warehouseId = warehouseId
                    /\ s.saleDate >= ThirtyDaysAgo }

\* a join that forgets w.is_active
JoinedAnyWarehouse(companyId) ==
    { j \in [p : products, i : inventory, w : Warehouse] :
        /\ j.p.id = j.i.productId
        /\ j.i.warehouseId = j.w.id
        /\ j.p.companyId = companyId
        /\ j.p.isActive
        /\ j.w.companyId = companyId }

\* FROM products p INNER JOIN inventory i INNER JOIN warehouses w WHERE
\* p.company_id = :companyId AND p.is_active AND w.is_active AND
\* w.company_id = :companyId: the part of FROM and WHERE that the three
\* queries share
Joined(companyId) ==
    { j \in [p : products, i : inventory, w : Warehouse] :
        /\ j.p.id = j.i.productId
        /\ j.i.warehouseId = j.w.id
        /\ j.p.companyId = companyId
        /\ j.p.isActive
        /\ j.w.isActive
        /\ j.w.companyId = companyId }

\* the joined rows that the WHERE clause of lowStockQuery keeps
ListSelected(companyId) ==
    { j \in Joined(companyId) :
        /\ CurrentStock(j.i) <= ListThreshold(j.p)
        /\ RecentSales(j.p.id, j.w.id) # {} }

\* the joined rows that the WHERE clause of countQuery keeps
CountSelected(companyId) ==
    { j \in Joined(companyId) :
        /\ CurrentStock(j.i) <= CountThreshold(j.p)
        /\ RecentSales(j.p.id, j.w.id) # {} }

\* the joined rows that the WHERE clause of summaryQuery keeps
SummarySelected(companyId) ==
    { j \in Joined(companyId) :
        /\ CurrentStock(j.i) <= SummaryThreshold(j.p)
        /\ RecentSales(j.p.id, j.w.id) # {} }

RECURSIVE TotalSold(_)
\* SUM(sd.quantity_sold) over the sales rows S
TotalSold(S) ==
    IF S = {} THEN 0
    ELSE LET s == CHOOSE x \in S : TRUE
         IN s.quantitySold + TotalSold(S \ {s})

\* a / n rounded half away from zero, as MySQL rounds a DECIMAL quotient
RoundDiv(a, n) ==
    IF a >= 0 THEN (2 * a + n) \div (2 * n)
    ELSE 0 - ((2 * (0 - a) + n) \div (2 * n))

\* an average that is one unit a day where the sales give none or less
AvgDailySalesAtLeastOne(productId, warehouseId) ==
    LET recent == RecentSales(productId, warehouseId)
        dates == { s.saleDate : s \in recent }
    IN IF dates = {} \/ TotalSold(recent) <= 0 THEN 10000
       ELSE RoundDiv(10000 * TotalSold(recent), Cardinality(dates))

\* COALESCE((SELECT AVG(daily_sales.total_sold) FROM (SELECT SUM(...) ...
\* GROUP BY sd.sale_date) daily_sales), 0): the mean over the sale dates of
\* the window of the quantity sold on each, a DECIMAL with four decimals,
\* held here in ten-thousandths
AvgDailySales(productId, warehouseId) ==
    LET recent == RecentSales(productId, warehouseId)
        dates == { s.saleDate : s \in recent }
    IN IF dates = {} THEN 0
       ELSE RoundDiv(10000 * TotalSold(recent), Cardinality(dates))

\* the projection without Math.max(0, ...)
DaysUntilStockoutUnclamped(currentStock, avgDailySales) ==
    IF avgDailySales > 0
    THEN (10000 * currentStock) \div avgDailySales
    ELSE IF currentStock > 0 THEN 90 ELSE 0

\* results.map(row => ...): daysUntilStockout of a row
DaysUntilStockout(currentStock, avgDailySales) ==
    LET days == IF avgDailySales > 0
                THEN (10000 * currentStock) \div avgDailySales
                ELSE IF currentStock > 0 THEN 90 ELSE 0
    IN IF days < 0 THEN 0 ELSE days

\* one element of alerts: the columns of lowStockQuery that the response
\* carries, after the map
Alert(j) ==
    [product_id |-> j.p.id,
     sku |-> j.p.sku,
     warehouse_id |-> j.w.id,
     current_stock |-> CurrentStock(j.i),
     threshold |-> SelectThreshold(j.p),
     days_until_stockout |->
         DaysUntilStockout(CurrentStock(j.i), AvgDailySales(j.p.id, j.w.id)),
     supplier |-> SupplierField(j.p)]

\* the rows S in every order
RowOrders(S) ==
    { f \in [1..Cardinality(S) -> S] :
        \A a, b \in 1..Cardinality(S) : a # b => f[a] # f[b] }

\* a query without ORDER BY
Unordered(S) == RowOrders(S)

\* ORDER BY (i.quantity - i.reserved_quantity) ASC: every order it may
\* produce, as alerts of equal stock come in any order
ByStock(S) ==
    { f \in RowOrders(S) :
        \A a, b \in 1..Len(f) : a < b => f[a].current_stock <= f[b].current_stock }

\* LIMIT :limit OFFSET :offset
LimitOffset(rows, limit, offset) ==
    SubSeq(rows, offset + 1,
           IF offset + limit < Len(rows) THEN offset + limit ELSE Len(rows))

\* the results of lowStockQuery, mapped: the pages it may return
LowStockQuery(companyId, limit, offset) ==
    { LimitOffset(f, limit, offset) :
        f \in ByStock({ Alert(j) : j \in ListSelected(companyId) }) }

\* SELECT COUNT(DISTINCT CONCAT(p.id, '-', w.id)) of countQuery
CountQuery(companyId) ==
    Cardinality({ <<j.p.id, j.w.id>> : j \in CountSelected(companyId) })

RECURSIVE TotalStock(_)
\* SUM(i.quantity - i.reserved_quantity) over the joined rows of a group
TotalStock(group) ==
    IF group = {} THEN 0
    ELSE LET j == CHOOSE x \in group : TRUE
         IN CurrentStock(j.i) + TotalStock(group \ {j})

\* parseFloat(row.avg_stock_level).toFixed(2), in hundredths: AVG yields a
\* DECIMAL with four decimals
AverageStockLevel(group) ==
    RoundDiv(RoundDiv(10000 * TotalStock(group), Cardinality(group)), 100)

\* a row whose critical count leaves out a stock of exactly 5
SummaryRowBelowFive(name, group) ==
    [category |-> name,
     total_alerts |-> Cardinality(group),
     out_of_stock |-> Cardinality({ j \in group : CurrentStock(j.i) = 0 }),
     critical_alerts |-> Cardinality({ j \in group : CurrentStock(j.i) < 5 }),
     average_stock_level |-> AverageStockLevel(group)]

\* one row of summaryQuery, mapped
SummaryRow(name, group) ==
    [category |-> name,
     total_alerts |-> Cardinality(group),
     out_of_stock |-> Cardinality({ j \in group : CurrentStock(j.i) = 0 }),
     critical_alerts |-> Cardinality({ j \in group : CurrentStock(j.i) <= 5 }),
     average_stock_level |-> AverageStockLevel(group)]

\* ORDER BY alert_count ASC
ByAlertCountAscending(S) ==
    { f \in RowOrders(S) :
        \A a, b \in 1..Len(f) : a < b => f[a].total_alerts <= f[b].total_alerts }

\* ORDER BY alert_count DESC: every order it may produce
ByAlertCount(S) ==
    { f \in RowOrders(S) :
        \A a, b \in 1..Len(f) : a < b => f[a].total_alerts >= f[b].total_alerts }

\* the results of summaryQuery, mapped: GROUP BY pc.name ORDER BY
\* alert_count DESC
SummaryQuery(companyId) ==
    LET selected == SummarySelected(companyId)
        names == { CategoryName(j.p) : j \in selected }
    IN ByAlertCount({ SummaryRow(n, { j \in selected : CategoryName(j.p) = n }) :
                        n \in names })

(***************************************************************************)
(* GET /api/companies/:company_id/alerts/low-stock                         *)
(***************************************************************************)
\* the default of req.query.limit
AlertsLimit == 100

\* the default of req.query.page
DefaultPage == 1

\* const { page = 1, limit = 100 } = req.query
PageOf(page) == IF page = Undefined THEN DefaultPage ELSE page

LimitOf(limit) == IF limit = Undefined THEN AlertsLimit ELSE limit

\* an offset that counts pages from zero
OffsetFromPageZero(page, limit) == page * limit

\* const offset = (page - 1) * limit
Offset(page, limit) == (page - 1) * limit

\* Math.ceil(totalAlerts / limit)
TotalPages(total, limit) == (total + limit - 1) \div limit

\* a check that lets every caller through
ForbiddenNobody(user, companyId) == FALSE

\* req.user.companyId !== parseInt(company_id)
Forbidden(user, companyId) == user.companyId # companyId

\* the handler up to its second await: the check of the company, then
\* lowStockQuery and the map of its results
LowStockList(user, companyId, page, limit) ==
    /\ reader.pc = "done"
    /\ IF Forbidden(user, companyId)
       THEN reader' = Reader("alerts", "done", user, companyId, PageOf(page),
                             LimitOf(limit), 403, <<>>, 0)
       ELSE \E rows \in LowStockQuery(companyId, LimitOf(limit),
                                      Offset(PageOf(page), LimitOf(limit))) :
               reader' = Reader("alerts", "count", user, companyId, PageOf(page),
                                LimitOf(limit), 0, rows, 0)
    /\ UNCHANGED <<dbVars, callVars>>

\* countQuery, then res.json({alerts, total_alerts, pagination, metadata})
LowStockCount ==
    /\ reader.handler = "alerts"
    /\ reader.pc = "count"
    /\ reader' = [reader EXCEPT
                     !.pc = "done", !.status = 200,
                     !.total = CountQuery(reader.companyId),
                     !.pages = TotalPages(CountQuery(reader.companyId), reader.limit)]
    /\ UNCHANGED <<dbVars, callVars>>

\* one of the two queries fails: the catch block answers 500
LowStockFails(user, companyId, page, limit) ==
    /\ \/ reader.pc = "done" /\ ~ Forbidden(user, companyId)
       \/ /\ reader.handler = "alerts" /\ reader.pc = "count"
          /\ user = reader.user /\ companyId = reader.companyId
          /\ PageOf(page) = reader.page /\ LimitOf(limit) = reader.limit
    /\ reader' = Reader("alerts", "done", user, companyId, PageOf(page),
                        LimitOf(limit), 500, <<>>, 0)
    /\ UNCHANGED <<dbVars, callVars>>

(***************************************************************************)
(* GET /api/companies/:company_id/alerts/low-stock/summary                 *)
(***************************************************************************)
LowStockSummary(user, companyId) ==
    /\ reader.pc = "done"
    /\ IF Forbidden(user, companyId)
       THEN reader' = Reader("summary", "done", user, companyId, 0, 0,
                             403, <<>>, 0)
       ELSE \E rows \in SummaryQuery(companyId) :
               reader' = Reader("summary", "done", user, companyId, 0, 0,
                                200, rows, 0)
    /\ UNCHANGED <<dbVars, callVars>>

\* summaryQuery fails: the catch block answers 500
LowStockSummaryFails(user, companyId) ==
    /\ reader.pc = "done"
    /\ ~ Forbidden(user, companyId)
    /\ reader' = Reader("summary", "done", user, companyId, 0, 0, 500, <<>>, 0)
    /\ UNCHANGED <<dbVars, callVars>>

(***************************************************************************)
(* SpecAlerts: the alert handlers over a database that one product         *)
(* creation and arriving sales extend.  The one stocked product of the initial      *)
(* database has any of the threshold settings that the schema allows: its  *)
(* own threshold or NULL, a category with a threshold, a category without  *)
(* one, or no category.                                                    *)
(***************************************************************************)
\* the product of the initial database and its stock: quantity, reserved
AlertSeeds ==
    { <<ProductRow(1, 1, 1, 1, "S0", 20, TRUE), 8, 0>>,
      <<ProductRow(1, 1, 1, 1, "S0", NULL, TRUE), 15, 0>>,
      <<ProductRow(1, 1, 1, 1, "S0", 5, TRUE), 8, 0>>,
      <<ProductRow(1, 1, 2, 1, "S0", NULL, TRUE), 12, 2>>,
      <<ProductRow(1, 1, NULL, NULL, "S0", NULL, TRUE), 11, 0>> }

InitAlerts ==
    /\ \E seed \in AlertSeeds :
          /\ products = { seed[1] }
          /\ inventory = { InventoryRow(1, 1, 1, seed[2], seed[3]) }
          /\ movements = { MovementRow(1, 1, "in", seed[2], 0, seed[2],
                                       "initial_stock", 1, 11) }
    /\ sales = {}
    /\ nextId = [product |-> 2, inventory |-> 2, movement |-> 2]
    /\ pc = [c \in Calls |-> "idle"]
    /\ req = [c \in Calls |-> NoRequest]
    /\ tx = [c \in Calls |-> NoTransaction]
    /\ loc = [c \in Calls |-> NoLocals]
    /\ res = [c \in Calls |-> NoResponse]
    /\ reader = NoReader

\* the product that is created while alerts are read: one that leaves its
\* threshold to its category, one that sets its own, or none, for a taken SKU
AlertRequests ==
    { Request(Alice, Body("Widget", "B", 100, 1, Undefined, Undefined, 1, 15)),
      Request(Alice, Body("Widget", "A", 100, 2, 1, 5, 1, 5)),
      Request(Alice, Body("Widget", "S0", 100, 1, Undefined, Undefined, 1, 15)) }

\* the companies that a reader asks for
CompanyIds == { k.id : k \in Company }

NextAlerts ==
    \/ \E r \in AlertRequests : Begin(1, r)
    \/ Step(1)
    \/ \E i \in inventory : \E d \in SaleDates :
          IngestSale(i.productId, i.warehouseId, 3, d)
    \/ \E user \in {Alice, Bob} : \E k \in CompanyIds :
          LowStockList(user, k, 1, AlertsLimit)
    \/ LowStockCount
    \/ \E user \in {Alice, Bob} : \E k \in CompanyIds :
          LowStockFails(user, k, 1, AlertsLimit)
    \/ \E user \in {Alice, Bob} : \E k \in CompanyIds : LowStockSummary(user, k)
    \/ \E user \in {Alice, Bob} : \E k \in CompanyIds : LowStockSummaryFails(user, k)

SpecAlerts == InitAlerts /\ [][NextAlerts]_vars

(***************************************************************************)
(* SpecStock: the alert handlers over a database at rest.  Company 1 has    *)
(* three products on the shelves of its active warehouse 1; each shelf is   *)
(* in any of a few conditions of stock, reservation and sales history.      *)
(* Product 1 also lies in the inactive warehouse 3, where it sells, and     *)
(* company 2 has one product in its warehouse 2.                            *)
(***************************************************************************)
Shelf(quantity, reservedQuantity, isActive, sold) ==
    [quantity |-> quantity, reservedQuantity |-> reservedQuantity,
     isActive |-> isActive, sales |-> sold]

\* product 1 (own threshold 20) in warehouse 1: a sale on the first day of
\* the window, a sale the day before it, no sale, a stock above the
\* threshold, a sale dated tomorrow
ShelvesA ==
    { Shelf(3, 0, TRUE, { SaleRow(1, 1, 1, 3, ThirtyDaysAgo) }),
      Shelf(3, 0, TRUE, { SaleRow(1, 1, 1, 3, ThirtyDaysAgo - 1) }),
      Shelf(3, 0, TRUE, {}),
      Shelf(25, 0, TRUE, { SaleRow(1, 1, 1, 3, ThirtyDaysAgo) }),
      Shelf(3, 0, TRUE, { SaleRow(1, 1, 1, 3, Today + 1) }) }

\* product 2 (no threshold of its own, category without one) in warehouse 1,
\* two units reserved: sales of 5 units on three days, more reserved than
\* stocked, two sales on one day and one on another, a sale of no unit, a
\* sale of one unit
ShelvesB ==
    { Shelf(7, 2, TRUE, { SaleRow(4, 2, 1, 2, Today - 1),
                          SaleRow(5, 2, 1, 2, Today - 2),
                          SaleRow(6, 2, 1, 1, Today - 3) }),
      Shelf(0, 2, TRUE, { SaleRow(4, 2, 1, 3, Today - 1) }),
      Shelf(5, 2, TRUE, { SaleRow(4, 2, 1, 2, Today - 1),
                          SaleRow(5, 2, 1, 3, Today - 1),
                          SaleRow(6, 2, 1, 4, Today - 5) }),
      Shelf(5, 2, TRUE, { SaleRow(4, 2, 1, 0, Today - 1) }),
      Shelf(5, 2, TRUE, { SaleRow(4, 2, 1, 1, Today - 1) }) }

\* product 3 (own threshold 5, no category, no supplier) in warehouse 1: out
\* of stock, a sale today, the product deactivated, a return of 3 units
ShelvesC ==
    { Shelf(0, 0, TRUE, { SaleRow(7, 3, 1, 3, Today - 1) }),
      Shelf(3, 0, TRUE, { SaleRow(7, 3, 1, 2, Today) }),
      Shelf(3, 0, FALSE, { SaleRow(7, 3, 1, 2, Today - 1) }),
      Shelf(3, 0, TRUE, { SaleRow(7, 3, 1, 0 - 3, Today - 1) }) }

\* the movement that recorded the first stock of an inventory row
StockMovement(i) ==
    MovementRow(i.id, i.id, "in", i.quantity, 0, i.quantity, "initial_stock", i.productId, 11)

InitStock ==
    /\ \E a \in ShelvesA : \E b \in ShelvesB : \E c \in ShelvesC :
          /\ products = { ProductRow(1, 1, 1, 1, "S1", 20, a.isActive),
                          ProductRow(2, 1, 2, 2, "S2", NULL, b.isActive),
                          ProductRow(3, 1, NULL, NULL, "S3", 5, c.isActive),
                          ProductRow(4, 2, 1, 1, "S4", 10, TRUE) }
          /\ inventory = { InventoryRow(1, 1, 1, a.quantity, a.reservedQuantity),
                           InventoryRow(2, 2, 1, b.quantity, b.reservedQuantity),
                           InventoryRow(3, 3, 1, c.quantity, c.reservedQuantity),
                           InventoryRow(4, 1, 3, 3, 0),
                           InventoryRow(5, 4, 2, 3, 0) }
          /\ sales = a.sales \cup b.sales \cup c.sales
                        \cup { SaleRow(10, 1, 3, 3, Today - 1),
                               SaleRow(11, 4, 2, 3, Today - 1) }
    /\ movements = { StockMovement(i) : i \in inventory }
    /\ nextId = [product |-> 5, inventory |-> 6, movement |-> 6]
    /\ pc = [c \in Calls |-> "idle"]
    /\ req = [c \in Calls |-> NoRequest]
    /\ tx = [c \in Calls |-> NoTransaction]
    /\ loc = [c \in Calls |-> NoLocals]
    /\ res = [c \in Calls |-> NoResponse]
    /\ reader = NoReader

\* req.query.page and req.query.limit as the readers send them
QueryPages == { Undefined, 2, 3 }
QueryLimits == { Undefined, 1, 2 }

NextStock ==
    \/ \E user \in {Alice, Bob} : \E k \in CompanyIds :
          \E page \in QueryPages : \E limit \in QueryLimits :
              LowStockList(user, k, page, limit)
    \/ LowStockCount
    \/ \E user \in {Alice, Bob} : \E k \in CompanyIds :
          \E page \in QueryPages : \E limit \in QueryLimits :
              LowStockFails(user, k, page, limit)
    \/ \E user \in {Alice, Bob} : \E k \in CompanyIds : LowStockSummary(user, k)
    \/ \E user \in {Alice, Bob} : \E k \in CompanyIds : LowStockSummaryFails(user, k)

SpecStock == InitStock /\ [][NextStock]_vars

(***************************************************************************)
(* SpecSummary: the summary and the alert list over a database at rest in  *)
(* which a category has several products.  Products 1, 2 and 3 of company  *)
(* 1 are Accessories with a threshold of 20 and sell in warehouse 1, each  *)
(* with any of a few stocks; product 4 has no category; product 5 is       *)
(* Hardware and either sells or does not.                                  *)
(***************************************************************************)
\* quantities on hand: nothing, 3, 5, 8, above the threshold
StockLevels == { 0, 3, 5, 8, 25 }

\* units reserved of product 1: none, or 2 more than a quantity of 0 has
ReservedLevels == { 0, 2 }

InitSummary ==
    /\ products = { ProductRow(1, 1, 1, 1, "S1", 20, TRUE),
                    ProductRow(2, 1, 1, 1, "S2", 20, TRUE),
                    ProductRow(3, 1, 1, NULL, "S3", 20, TRUE),
                    ProductRow(4, 1, NULL, NULL, "S4", 5, TRUE),
                    ProductRow(5, 1, 2, 2, "S5", NULL, TRUE) }
    /\ \E a \in StockLevels : \E b \in StockLevels : \E c \in StockLevels :
       \E r \in ReservedLevels :
          inventory = { InventoryRow(1, 1, 1, a, r),
                        InventoryRow(2, 2, 1, b, 0),
                        InventoryRow(3, 3, 1, c, 0),
                        InventoryRow(4, 4, 1, 4, 0),
                        InventoryRow(5, 5, 1, 6, 0) }
    /\ \E hardware \in SUBSET { SaleRow(5, 5, 1, 2, Today - 1) } :
          sales = { SaleRow(i, i, 1, 2, Today - 1) : i \in 1..4 } \cup hardware
    /\ movements = { StockMovement(i) : i \in inventory }
    /\ nextId = [product |-> 6, inventory |-> 6, movement |-> 6]
    /\ pc = [c \in Calls |-> "idle"]
    /\ req = [c \in Calls |-> NoRequest]
    /\ tx = [c \in Calls |-> NoTransaction]
    /\ loc = [c \in Calls |-> NoLocals]
    /\ res = [c \in Calls |-> NoResponse]
    /\ reader = NoReader

NextSummary ==
    \/ \E user \in {Alice, Bob} : \E k \in CompanyIds :
          LowStockList(user, k, Undefined, Undefined)
    \/ LowStockCount
    \/ \E user \in {Alice, Bob} : \E k \in CompanyIds :
          LowStockFails(user, k, Undefined, Undefined)
    \/ \E user \in {Alice, Bob} : \E k \in CompanyIds : LowStockSummary(user, k)
    \/ \E user \in {Alice, Bob} : \E k \in CompanyIds : LowStockSummaryFails(user, k)

SpecSummary == InitSummary /\ [][NextSummary]_vars

(***************************************************************************)
(* The auth middleware, which every route runs before its handler.         *)
(***************************************************************************)
\* the payload and the condition of a token; a claim that the payload
\* lacks is Undefined, a role that it lacks is ""
Token(present, signed, expired, companyId, userId, id, role) ==
    [present |-> present, signed |-> signed, expired |-> expired,
     companyId |-> companyId, userId |-> userId, id |-> id, role |-> role]

\* the Authorization header: its scheme ("" when the header is missing) and
\* what follows 'Bearer '
Header(scheme, token) == [scheme |-> scheme, token |-> token]

NoToken == Token(FALSE, FALSE, FALSE, Undefined, Undefined, Undefined, "")

\* the headers that requests arrive with: none, another scheme, no token,
\* tokens of Alice (userId) and of Bob (id, no role), a token signed with
\* another key, an expired one, one of the inactive company 3 and one of a
\* company that does not exist
AuthHeaders ==
    { Header("", NoToken),
      Header("Basic", NoToken),
      Header("Bearer", NoToken),
      Header("Bearer", Token(TRUE, TRUE, FALSE, 1, 11, Undefined, "admin")),
      Header("Bearer", Token(TRUE, TRUE, FALSE, 2, Undefined, 22, "")),
      Header("Bearer", Token(TRUE, FALSE, FALSE, 1, 11, Undefined, "admin")),
      Header("Bearer", Token(TRUE, TRUE, TRUE, 1, 11, Undefined, "admin")),
      Header("Bearer", Token(TRUE, TRUE, FALSE, 3, 33, Undefined, "admin")),
      Header("Bearer", Token(TRUE, TRUE, FALSE, 9, 99, Undefined, "admin")) }

\* req.user = {id, companyId, role}
Identity(id, companyId, role) == [id |-> id, companyId |-> companyId, role |-> role]

NoIdentity == Identity(0, 0, "")

\* the outcome of the middleware: the 401 it sends, or status 0 and the
\* req.user with which it calls next()
Denied(message) == [status |-> 401, message |-> message, user |-> NoIdentity]

\* Company.findOne({where: {id: decoded.companyId, isActive: true}})
CompanyFindOne(companyId) == { k \in Company : k.id = companyId /\ k.isActive }

\* a middleware that does not look the company up
AuthAnyCompany(h) ==
    IF h.scheme = "" THEN Denied("No authorization header provided")
    ELSE IF h.scheme # "Bearer"
    THEN Denied("Invalid authorization format. Use Bearer token")
    ELSE IF ~ h.token.present THEN Denied("No token provided")
    ELSE IF ~ h.token.signed THEN Denied("Invalid token")
    ELSE IF h.token.expired THEN Denied("Token has expired")
    ELSE [status |-> 0, message |-> "",
          user |-> Identity(IF h.token.userId # Undefined THEN h.token.userId
                            ELSE h.token.id,
                            h.token.companyId,
                            IF h.token.role # "" THEN h.token.role ELSE "user")]

\* auth: the header, the Bearer format, the token, jwt.verify (signature,
\* then expiry), the company, req.user
Auth(h) ==
    IF h.scheme = "" THEN Denied("No authorization header provided")
    ELSE IF h.scheme # "Bearer"
    THEN Denied("Invalid authorization format. Use Bearer token")
    ELSE IF ~ h.token.present THEN Denied("No token provided")
    ELSE IF ~ h.token.signed THEN Denied("Invalid token")
    ELSE IF h.token.expired THEN Denied("Token has expired")
    ELSE IF CompanyFindOne(h.token.companyId) = {}
    THEN Denied("Invalid token or company no longer active")
    ELSE [status |-> 0, message |-> "",
          user |-> Identity(IF h.token.userId # Undefined THEN h.token.userId
                            ELSE h.token.id,
                            h.token.companyId,
                            IF h.token.role # "" THEN h.token.role ELSE "user")]

\* the request as the handler sees it, its header kept
AuthRequest(h, body) == [user |-> Auth(h).user, body |-> body, header |-> h]

\* the 401 of a GET route
Unauthorized(handler, companyId) ==
    /\ reader.pc = "done"
    /\ reader' = Reader(handler, "done", NoIdentity, companyId, 0, 0, 401, <<>>, 0)
    /\ UNCHANGED <<dbVars, callVars>>

\* router.post('/api/products', auth, ...)
AuthBegin(c, h, body) ==
    IF Auth(h).status = 401
    THEN /\ pc[c] = "idle"
         /\ \A d \in Calls : d < c => pc[d] # "idle"
         /\ req' = [req EXCEPT ![c] = AuthRequest(h, body)]
         /\ res' = [res EXCEPT ![c] = Response(401, "Access denied", <<>>)]
         /\ pc' = [pc EXCEPT ![c] = "done"]
         /\ UNCHANGED <<dbVars, tx, loc, reader>>
    ELSE Begin(c, AuthRequest(h, body))

\* router.get('/api/products', auth, ...)
AuthListProducts(h) ==
    IF Auth(h).status = 401 THEN Unauthorized("list", 0)
    ELSE ListProducts(Auth(h).user)

\* router.get('/api/companies/:company_id/alerts/low-stock', auth, ...)
AuthLowStockList(h, companyId) ==
    IF Auth(h).status = 401 THEN Unauthorized("alerts", companyId)
    ELSE LowStockList(Auth(h).user, companyId, Undefined, Undefined)

\* router.get('/api/companies/:company_id/alerts/low-stock/summary', auth, ...)
AuthLowStockSummary(h, companyId) ==
    IF Auth(h).status = 401 THEN Unauthorized("summary", companyId)
    ELSE LowStockSummary(Auth(h).user, companyId)

\* the bodies sent with the headers: one that creates a product in
\* warehouse 1, one in warehouse 2
AuthBodies ==
    { Body("Widget", "A", 100, Undefined, Undefined, Undefined, 1, 15),
      Body("Widget", "B", 100, Undefined, Undefined, Undefined, 2, 15) }

\* one POST and the GET requests, each with any of the headers
NextAuth ==
    \/ \E h \in AuthHeaders : \E b \in AuthBodies : AuthBegin(1, h, b)
    \/ Step(1)
    \/ \E h \in AuthHeaders : AuthListProducts(h)
    \/ \E h \in AuthHeaders : \E k \in CompanyIds : AuthLowStockList(h, k)
    \/ LowStockCount
    \/ \E h \in AuthHeaders : \E k \in CompanyIds : AuthLowStockSummary(h, k)

SpecAuth == Init /\ [][NextAuth]_vars

(***************************************************************************)
(* What a request asks for and how its handler ended, as the claims below  *)
(* speak of them.                                                          *)
(***************************************************************************)
Started(c) == pc[c] # "idle"

\* the handler has returned or thrown
Finished(c) == pc[c] \in {"done", "rejected"}

SchemaValid(c) ==
    /\ \A n \in 1..Len(SchemaKeys) : ~ Violates(req[c].body, SchemaKeys[n])
    /\ UnknownKeys(req[c].body) = {}

\* warehouseId names an active warehouse of the caller's company
WarehouseValid(c) ==
    \E w \in Warehouse :
        /\ w.id = req[c].body.warehouseId
        /\ w.companyId = req[c].user.companyId
        /\ w.isActive

WarehouseOfOtherCompany(c) ==
    \E w \in Warehouse :
        /\ w.id = req[c].body.warehouseId
        /\ w.companyId # req[c].user.companyId
        /\ w.isActive

\* categoryId and supplierId, when given, name existing rows
ReferencesExist(c) ==
    /\ req[c].body.categoryId \in {Undefined} \cup { k.id : k \in ProductCategory }
    /\ req[c].body.supplierId \in {Undefined} \cup { u.id : u \in Supplier }

\* a query or the commit of the call failed in the storage layer
StorageFault(c) == loc[c].error = "SequelizeDatabaseError"

\* a committed product of another origin carries the SKU of the call
SkuTakenByOther(c) ==
    \E p \in products : p.sku = req[c].body.sku /\ p.id # loc[c].productId

Succeeded(c) == res[c].status = 201

\* the committed rows that call c wrote
ProductsOf(c) == { p \in products : p.id = loc[c].productId }
InventoryOf(c) == { i \in inventory : i.productId = loc[c].productId }
MovementsOf(c) ==
    { m \in movements : \E i \in InventoryOf(c) : m.inventoryId = i.id }

\* call c succeeded and its three rows are committed as its request says
Created(c) ==
    /\ Succeeded(c)
    /\ \E p \in ProductsOf(c) :
          /\ ProductsOf(c) = {p}
          /\ p.companyId = req[c].user.companyId
          /\ p.sku = req[c].body.sku
          /\ p.isActive
    /\ \E i \in InventoryOf(c) :
          /\ InventoryOf(c) = {i}
          /\ i.warehouseId = req[c].body.warehouseId
          /\ i.quantity = req[c].body.initialQuantity
          /\ i.reservedQuantity = 0
    /\ \E m \in MovementsOf(c) :
          /\ MovementsOf(c) = {m}
          /\ m.movementType = "in"
          /\ m.previousQuantity = 0
          /\ m.newQuantity = req[c].body.initialQuantity
          /\ m.referenceType = "initial_stock"
          /\ m.userId = req[c].user.id

\* the committed tables hold the initial rows and one row per successful call
OneRowPerSuccess ==
    /\ SeedProducts \subseteq products
    /\ SeedInventory \subseteq inventory
    /\ SeedMovements \subseteq movements
    /\ Cardinality(products) =
          Cardinality(SeedProducts) + Cardinality({ c \in Calls : Succeeded(c) })
    /\ Cardinality(inventory) =
          Cardinality(SeedInventory) + Cardinality({ c \in Calls : Succeeded(c) })
    /\ Cardinality(movements) =
          Cardinality(SeedMovements) + Cardinality({ c \in Calls : Succeeded(c) })

Contenders(s) ==
    { c \in Calls : /\ Started(c)
                    /\ SchemaValid(c)
                    /\ WarehouseValid(c)
                    /\ ReferencesExist(c)
                    /\ req[c].body.sku = s }

\* C2: when two or more valid calls for the same fresh SKU, of one company
\* or of several, have all finished and no storage fault hit any of them,
\* exactly one has succeeded, every other one got 409, and one product, one
\* inventory record and one movement carry that SKU.
C2_OneWinnerPerSku ==
    \A s \in { req[c].body.sku : c \in Calls } \ { p.sku : p \in SeedProducts } :
        ( /\ Cardinality(Contenders(s)) >= 2
          /\ \A c \in Contenders(s) : Finished(c) /\ ~ StorageFault(c) )
        => /\ Cardinality({ c \in Contenders(s) : Succeeded(c) }) = 1
           /\ \A c \in Contenders(s) : ~ Succeeded(c) => res[c].status = 409
           /\ Cardinality({ p \in products : p.sku = s }) = 1
           /\ Cardinality({ i \in inventory :
                  \E p \in products : p.sku = s /\ i.productId = p.id }) = 1
           /\ Cardinality({ m \in movements : \E i \in inventory :
                  /\ m.inventoryId = i.id
                  /\ \E p \in products : p.sku = s /\ i.productId = p.id }) = 1

\* two calls of different companies raced for one SKU, and the loser found
\* out at its insert
C2_Witness ==
    \E c, d \in Calls :
        /\ req[c].body.sku = req[d].body.sku
        /\ req[c].user.companyId # req[d].user.companyId
        /\ Created(c)
        /\ pc[d] = "done"
        /\ loc[d].error = "SequelizeUniqueConstraintError"
        /\ res[d].status = 409

\* C3: a finished call that is valid but for its SKU, which another
\* product carries, got 409 when its references exist and never 500; this
\* holds for the lookup before the insert and for the unique key alike.
C3_TakenSkuIsConflict ==
    \A c \in Calls :
        /\ ( /\ Finished(c)
             /\ SchemaValid(c)
             /\ WarehouseValid(c)
             /\ SkuTakenByOther(c)
             /\ ~ StorageFault(c) )
           => /\ res[c].status # 500
              /\ ReferencesExist(c) => res[c].status = 409
        /\ ( /\ Finished(c)
             /\ loc[c].error = "SequelizeUniqueConstraintError" )
           => res[c].status = 409

\* a call lost the race at its insert and was answered 409
C3_Witness ==
    \E c \in Calls :
        /\ pc[c] = "done"
        /\ loc[c].error = "SequelizeUniqueConstraintError"
        /\ res[c] = Response(409, "Duplicate entry", <<>>)

\* C4: in every state, every committed product has an inventory record
\* and every committed inventory record has a movement, and every product
\* that GET /api/products returned came with its inventory record.
C4_AtomicVisibility ==
    /\ \A p \in products : \E i \in inventory : i.productId = p.id
    /\ \A i \in inventory : \E m \in movements : m.inventoryId = i.id
    /\ reader.handler = "list" =>
          \A n \in 1..Len(reader.rows) : reader.rows[n].inventory # {}

\* the list was read, with a created product in it, while another call
\* holds an uncommitted product
C4_Witness ==
    /\ reader.handler = "list"
    /\ \E n \in 1..Len(reader.rows) :
          \E c \in Calls : Created(c) /\ reader.rows[n].id = loc[c].productId
    /\ \E d \in Calls : tx[d].state = "open" /\ tx[d].products # {}

C6_InvalidWarehouseRejected ==
    \A c \in Calls :
        ( /\ Finished(c)
          /\ SchemaValid(c)
          /\ ~ WarehouseValid(c)
          /\ ~ StorageFault(c) )
        => /\ res[c] = Response(400, "Invalid warehouse", <<>>)
           /\ loc[c].productId = 0
           /\ loc[c].inventoryId = 0
           /\ tx[c] = Transaction("rollback", {}, {}, {})

\* a call that named an active warehouse of another company was refused
C6_Witness ==
    \E c \in Calls :
        /\ pc[c] = "done"
        /\ SchemaValid(c)
        /\ WarehouseOfOtherCompany(c)
        /\ res[c] = Response(400, "Invalid warehouse", <<>>)

C8_EveryViolationListed ==
    \A c \in Calls :
        (Finished(c) /\ ~ SchemaValid(c)) =>
            /\ res[c].error = "Validation failed"
            /\ Len(res[c].details) =
                  Cardinality({ n \in 1..Len(SchemaKeys) :
                                  Violates(req[c].body, SchemaKeys[n]) })
            /\ \A n \in 1..Len(SchemaKeys) :
                  Violates(req[c].body, SchemaKeys[n]) =>
                      \E k \in 1..Len(res[c].details) :
                          res[c].details[k] = SchemaKeys[n]

(***************************************************************************)
(* Low-stock thresholds.                                                   *)
(***************************************************************************)
RECURSIVE TotalAlerts(_)
\* the sum of total_alerts over the rows of a summary
TotalAlerts(rows) ==
    IF rows = <<>> THEN 0
    ELSE Head(rows).total_alerts + TotalAlerts(Tail(rows))

\* the effective threshold as the specification resolves it: the product's
\* own when set, else its category's when the product has a category that
\* defines one, else 10
EffectiveThreshold(p) ==
    IF p.lowStockThreshold # NULL THEN p.lowStockThreshold
    ELSE IF \E k \in ProductCategory :
                k.id = p.categoryId /\ k.lowStockThreshold # NULL
    THEN (CHOOSE k \in ProductCategory : k.id = p.categoryId).lowStockThreshold
    ELSE 10

\* the candidates of a company with a recent sale whose available stock is
\* at or below the effective threshold
Qualifying(companyId) ==
    { j \in Joined(companyId) :
        /\ CurrentStock(j.i) <= EffectiveThreshold(j.p)
        /\ RecentSales(j.p.id, j.w.id) # {} }

\* C9: in every state and for every company, the alert list query, the
\* alert count query and the summary query select exactly the candidates
\* whose available stock is at or below the effective threshold (product's
\* own, else category's, else 10); every alert of a response reports that
\* threshold and has a stock at or below it, and the total of a response
\* counts no candidate above it.
C9_ThresholdResolvedAlike ==
    /\ \A k \in CompanyIds :
          /\ ListSelected(k) = Qualifying(k)
          /\ CountSelected(k) = Qualifying(k)
          /\ SummarySelected(k) = Qualifying(k)
    /\ reader.handler = "alerts" =>
          /\ \A n \in 1..Len(reader.rows) :
                \E p \in products :
                    /\ p.id = reader.rows[n].product_id
                    /\ reader.rows[n].threshold = EffectiveThreshold(p)
                    /\ reader.rows[n].current_stock <= EffectiveThreshold(p)
          /\ reader.status = 200 =>
                /\ Len(reader.rows) <= reader.total
                /\ reader.total <= Cardinality(Qualifying(reader.companyId))
    /\ (reader.handler = "summary" /\ reader.status = 200) =>
          TotalAlerts(reader.rows) <= Cardinality(Qualifying(reader.companyId))

\* an alert was sent for a product without a threshold of its own whose
\* stock is above 10 and at or below the 20 of its category
C9_Witness ==
    /\ reader.handler = "alerts"
    /\ reader.status = 200
    /\ reader.total >= 1
    /\ \E n \in 1..Len(reader.rows) :
          /\ reader.rows[n].threshold = 20
          /\ reader.rows[n].current_stock > FallbackThreshold
          /\ \E p \in products :
                /\ p.id = reader.rows[n].product_id
                /\ p.lowStockThreshold = NULL

\* C10: a product that a call created without lowStockThreshold in its
\* body, in a category whose threshold is T, is selected by the three
\* queries, once it has a recent sale, exactly when its available stock is
\* at or below T, and every alert for it reports the threshold T.
C10_CategoryDefaultApplies ==
    \A c \in Calls :
        ( /\ Created(c)
          /\ req[c].body.lowStockThreshold = Undefined
          /\ \E k \in ProductCategory :
                k.id = req[c].body.categoryId /\ k.lowStockThreshold # NULL )
        => LET T == (CHOOSE k \in ProductCategory :
                        k.id = req[c].body.categoryId).lowStockThreshold
               company == req[c].user.companyId
           IN /\ \A j \in Joined(company) :
                    (j.p.id = loc[c].productId /\ RecentSales(j.p.id, j.w.id) # {})
                    => /\ j \in ListSelected(company) <=> CurrentStock(j.i) <= T
                       /\ j \in CountSelected(company) <=> CurrentStock(j.i) <= T
                       /\ j \in SummarySelected(company) <=> CurrentStock(j.i) <= T
              /\ reader.handler = "alerts" =>
                    \A n \in 1..Len(reader.rows) :
                        reader.rows[n].product_id = loc[c].productId
                        => reader.rows[n].threshold = T

(***************************************************************************)
(* The alerts of a company.                                                *)
(***************************************************************************)
\* the (product, warehouse) pairs of the alerts in rows
PairsOf(rows) ==
    { <<rows[n].product_id, rows[n].warehouse_id>> : n \in 1..Len(rows) }

\* the response carries alerts: the list query has run and nothing failed
HasAlerts == reader.handler = "alerts" /\ reader.status \in {0, 200}

\* the pairs that the specification alerts a company of: an inventory
\* record links product and warehouse, both belong to the company and are
\* active, the available stock is at or below the effective threshold, and
\* the pair has a sale on or after the day 30 days before today
AlertedPairs(companyId) ==
    { <<x.p.id, x.w.id>> : x \in
        { y \in [p : products, w : Warehouse] :
            /\ y.p.companyId = companyId /\ y.p.isActive
            /\ y.w.companyId = companyId /\ y.w.isActive
            /\ \E i \in inventory :
                  /\ i.productId = y.p.id /\ i.warehouseId = y.w.id
                  /\ i.quantity - i.reservedQuantity <= EffectiveThreshold(y.p)
            /\ \E s \in sales :
                  /\ s.productId = y.p.id /\ s.warehouseId = y.w.id
                  /\ s.saleDate >= Today - 30 } }

LowOnStock(companyId) ==
    { <<x.p.id, x.w.id>> : x \in
        { y \in [p : products, w : Warehouse] :
            /\ y.p.companyId = companyId /\ y.p.isActive
            /\ y.w.companyId = companyId /\ y.w.isActive
            /\ \E i \in inventory :
                  /\ i.productId = y.p.id /\ i.warehouseId = y.w.id
                  /\ i.quantity - i.reservedQuantity <= EffectiveThreshold(y.p) } }

\* the pair has a sale dated within the 30 days that end today
SoldInWindow(productId, warehouseId) ==
    \E s \in sales :
        /\ s.productId = productId
        /\ s.warehouseId = warehouseId
        /\ Today - 30 <= s.saleDate
        /\ s.saleDate <= Today

\* C12: in an unpaginated response, a candidate low on stock is alerted
\* exactly when a sale of that product in that warehouse is dated from 30
\* days ago to today: not 31 days ago, not after today, not in another
\* warehouse.
C12_RecencyWindow ==
    (HasAlerts /\ reader.page = DefaultPage /\ reader.limit = AlertsLimit) =>
        \A pair \in LowOnStock(reader.companyId) :
            pair \in PairsOf(reader.rows) <=> SoldInWindow(pair[1], pair[2])

(***************************************************************************)
(* The projection of the stockout.                                         *)
(***************************************************************************)
\* the sales of a pair dated on or after the day 30 days before today
WindowSales(productId, warehouseId) ==
    { s \in sales : /\ s.productId = productId
                    /\ s.warehouseId = warehouseId
                    /\ s.saleDate >= Today - 30 }

\* the number of distinct sale dates among them
SaleDays(productId, warehouseId) ==
    Cardinality({ s.saleDate : s \in WindowSales(productId, warehouseId) })

\* the available stock of the pair of an alert, from its inventory record
AvailableStock(a) ==
    LET i == CHOOSE x \in inventory :
                 x.productId = a.product_id /\ x.warehouseId = a.warehouse_id
    IN i.quantity - i.reservedQuantity

\* C13: every alert of a response whose pair sold a positive number of
\* units in the window reports days_until_stockout =
\* floor(available stock * distinct sale days / units sold), or 0 when
\* that is negative.
C13_DaysUntilStockout ==
    HasAlerts =>
        \A n \in 1..Len(reader.rows) :
            LET a == reader.rows[n]
                sold == TotalSold(WindowSales(a.product_id, a.warehouse_id))
                days == SaleDays(a.product_id, a.warehouse_id)
                exact == (AvailableStock(a) * days) \div sold
            IN sold > 0 =>
                  a.days_until_stockout = IF exact < 0 THEN 0 ELSE exact

\* C14: every alert of a response has days_until_stockout >= 0, and 0
\* when its available stock is 0; the projection is never negative, and is
\* 0 for a stock of 0, for every stock from -3 to 30 and every average of
\* daily sales from -3 to 5 units, also for the averages 0.0001 and 1.6667.
C14_NeverNegative ==
    /\ HasAlerts =>
          \A n \in 1..Len(reader.rows) :
              /\ reader.rows[n].days_until_stockout >= 0
              /\ AvailableStock(reader.rows[n]) = 0 =>
                    reader.rows[n].days_until_stockout = 0
    /\ \A avg \in { 10000 * u : u \in -3..5 } \cup { 1, 16667 } :
          /\ DaysUntilStockout(0, avg) = 0
          /\ \A stock \in -3..30 : DaysUntilStockout(stock, avg) >= 0

\* a response carries an alert of a pair with more reserved than stocked
\* and an alert of a pair that is out of stock and sells
C14_Witness ==
    /\ HasAlerts
    /\ \E n \in 1..Len(reader.rows) :
          /\ AvailableStock(reader.rows[n]) < 0
          /\ reader.rows[n].days_until_stockout = 0
    /\ \E n \in 1..Len(reader.rows) :
          /\ AvailableStock(reader.rows[n]) = 0
          /\ TotalSold(WindowSales(reader.rows[n].product_id,
                                   reader.rows[n].warehouse_id)) > 0
          /\ reader.rows[n].days_until_stockout = 0

(***************************************************************************)
(* Order and pages.                                                        *)
(***************************************************************************)
\* the page sizes and page numbers that the claims on pages are checked for
PageSizes == { 1, 2, AlertsLimit }
PageNumbers == 1..3

\* C15: the alerts of a response report the available stock of their pairs
\* and are in non-decreasing order of it; for every company and page size,
\* whatever orders the queries of two requests produce, the last alert of
\* page k has no more stock than the first alert of page k + 1.
C15_AscendingStock ==
    /\ HasAlerts =>
          /\ \A n \in 1..Len(reader.rows) :
                reader.rows[n].current_stock = AvailableStock(reader.rows[n])
          /\ \A m, n \in 1..Len(reader.rows) :
                m < n => reader.rows[m].current_stock <= reader.rows[n].current_stock
    /\ \A k \in CompanyIds : \A size \in PageSizes : \A page \in PageNumbers :
          \A this \in LowStockQuery(k, size, (page - 1) * size) :
              \A next \in LowStockQuery(k, size, page * size) :
                  (this # <<>> /\ next # <<>>) =>
                      this[Len(this)].current_stock <= next[1].current_stock

\* a response carries three alerts, the first with less stock than the
\* other two, which tie
C15_Witness ==
    /\ HasAlerts
    /\ reader.status = 200
    /\ Len(reader.rows) = 3
    /\ reader.rows[1].current_stock < reader.rows[2].current_stock
    /\ reader.rows[2].current_stock = reader.rows[3].current_stock

\* ceil(total / size), from its definition
Ceiling(total, size) ==
    CHOOSE n \in 0..total : n * size >= total /\ (n = 0 \/ (n - 1) * size < total)

Smaller(a, b) == IF a < b THEN a ELSE b

\* C16: a successful response to page p with page size s carries, of some
\* unpaginated result of the list query, exactly the alerts at positions
\* (p - 1) * s + 1 .. min(p * s, total), none when the page lies past the
\* end; its total is the number of all alerted pairs of the company, the
\* same for every p and s, and its page count is ceil(total / s).  Omitted
\* parameters mean page 1 and page size 100, and page 2 of size 10 of 25
\* rows is rows 11 to 20 of 3 pages.
C16_PageIsSlice ==
    /\ (HasAlerts /\ reader.status = 200) =>
          /\ reader.total = Cardinality(AlertedPairs(reader.companyId))
          /\ reader.pages = Ceiling(reader.total, reader.limit)
          /\ \E full \in LowStockQuery(reader.companyId, AlertsLimit, 0) :
                reader.rows = SubSeq(full, (reader.page - 1) * reader.limit + 1,
                                     Smaller(reader.page * reader.limit, reader.total))
    /\ PageOf(Undefined) = 1
    /\ LimitOf(Undefined) = 100
    /\ LimitOffset([n \in 1..25 |-> n], 10, Offset(2, 10)) = [n \in 1..10 |-> n + 10]
    /\ TotalPages(25, 10) = 3

\* page 2 of size 2 of three alerts was sent: one alert, total 3, 2 pages
C16_Witness ==
    /\ HasAlerts
    /\ reader.status = 200
    /\ reader.page = 2
    /\ reader.limit = 2
    /\ reader.total = 3
    /\ reader.pages = 2
    /\ Len(reader.rows) = 1

(***************************************************************************)
(* Tenancy                                                                 *)
(***************************************************************************)

\* C17: a caller whose company is not the company of the path gets 403 from
\* the alert list and from the summary alike, the handler stops there
\* without running a query (it never waits for the count), and the answer
\* carries no alert, no summary row and no total.
C17_ForeignCompanyForbidden ==
    (reader.handler \in {"alerts", "summary"} /\ reader.user.companyId # reader.companyId) =>
        /\ reader.pc = "done"
        /\ reader.status = 403
        /\ reader.rows = <<>>
        /\ reader.total = 0
        /\ reader.pages = 0

\* Bob of company 2 asked for the alerts of company 1, which has some, and
\* was refused
C17_Witness ==
    /\ reader.handler = "alerts"
    /\ reader.user = Bob
    /\ reader.companyId = 1
    /\ reader.status = 403
    /\ AlertedPairs(1) # {}

\* the product that call c inserted, in its transaction or committed
ProductOf(c) ==
    { p \in products \cup tx[c].products : p.id = loc[c].productId }

\* C18: every committed inventory row references a product and a warehouse
\* of one company; the product a call inserts carries the company id of
\* req.user; and a body that names a company id of its own gets no product
\* at all, so that no product is of a company other than its creator's.
C18_SameCompany ==
    /\ \A i \in inventory :
          \E p \in products : \E w \in Warehouse :
              /\ p.id = i.productId
              /\ w.id = i.warehouseId
              /\ p.companyId = w.companyId
    /\ \A c \in Calls :
          /\ \A p \in ProductOf(c) : p.companyId = req[c].user.companyId
          /\ "companyId" \in DOMAIN req[c].body => ProductOf(c) = {}
    /\ \A p \in products \ TenantProducts :
          \E c \in Calls : p \in ProductOf(c) /\ p.companyId = req[c].user.companyId

\* Bob's product is committed with its stock in Bob's warehouse, and
\* Alice's body that named company 2 was turned down
C18_Witness ==
    \E c, d \in Calls :
        /\ pc[c] = "done" /\ res[c].status = 201
        /\ req[c].user = Bob
        /\ \E p \in products : \E i \in inventory :
              /\ p.id = loc[c].productId /\ p.companyId = 2
              /\ i.productId = p.id /\ i.warehouseId = 2
        /\ pc[d] = "done" /\ res[d].status = 400
        /\ "companyId" \in DOMAIN req[d].body
        /\ req[d].body.companyId # req[d].user.companyId

\* C19: no two committed products have the same SKU, whatever their
\* companies and whether they are active or not, however the calls that
\* created them were interleaved.
C19_SkuGloballyUnique ==
    \A p, q \in products : p.sku = q.sku => p.id = q.id

\* callers of two companies asked for the same fresh SKU; one product was
\* created and the later caller's lookup found it; the retired product of
\* the initial database is still there
C19_Witness ==
    \E c, d \in Calls :
        /\ req[c].body.sku = req[d].body.sku
        /\ req[c].user.companyId # req[d].user.companyId
        /\ pc[c] = "done" /\ res[c].status = 201
        /\ \E p \in products : p.id = loc[c].productId /\ p.sku = req[c].body.sku
        /\ pc[d] = "done"
        /\ res[d].status = 409
        /\ res[d].error = "SKU already exists"
        /\ loc[d].error = ""
        /\ \E p \in products : ~ p.isActive

(***************************************************************************)
(* One stock row per product and warehouse                                 *)
(***************************************************************************)
\* the rows, committed or of call c's own transaction, for the product of
\* call c in the warehouse it names
StockOf(c) ==
    { i \in inventory \cup tx[c].inventory :
         i.productId = loc[c].productId /\ i.warehouseId = req[c].body.warehouseId }

AlertProduct(a) == CHOOSE p \in products : p.id = a.product_id

\* C21: the supplier field of an alert carries id, name, contact email and
\* lead time of the product's supplier exactly when the product is linked to
\* a supplier that is active; it is null for a product without a supplier
\* and for one whose supplier is inactive.
C21_SupplierIfActive ==
    HasAlerts =>
        \A n \in 1..Len(reader.rows) :
            LET a == reader.rows[n]
                linked == { s \in Supplier :
                              s.id = AlertProduct(a).supplierId /\ s.isActive }
            IN /\ a.supplier # <<>> <=> linked # {}
               /\ \A s \in linked :
                     a.supplier = << [id |-> s.id, name |-> s.name,
                                      contact_email |-> s.contactEmail,
                                      lead_time_days |-> s.leadTimeDays] >>

(***************************************************************************)
(* The summary                                                             *)
(***************************************************************************)
\* a summary was sent
HasSummary == reader.handler = "summary" /\ reader.status = 200

\* the category name the specification files a product under
GroupName(p) ==
    IF \E k \in ProductCategory : k.id = p.categoryId
    THEN (CHOOSE k \in ProductCategory : k.id = p.categoryId).name
    ELSE "Uncategorized"

\* the available stocks, by pair, of the pairs alerted of a company that
\* the specification files under a name
GroupStocks(companyId, name) ==
    { x \in [pair : AlertedPairs(companyId), stock : -5..30] :
        /\ \E p \in products : p.id = x.pair[1] /\ GroupName(p) = name
        /\ \E i \in inventory :
              /\ i.productId = x.pair[1] /\ i.warehouseId = x.pair[2]
              /\ x.stock = i.quantity - i.reservedQuantity }

RECURSIVE SumOfStocks(_)
SumOfStocks(S) ==
    IF S = {} THEN 0
    ELSE LET x == CHOOSE y \in S : TRUE IN x.stock + SumOfStocks(S \ {x})

\* h hundredths is a value of m / n rounded to two decimals
RoundsTo(h, m, n) ==
    /\ 2 * (100 * m - h * n) <= n
    /\ 2 * (h * n - 100 * m) <= n

\* three stock rows of quantities 0, 3 and 8, nothing reserved
ExampleGroup == { [i |-> InventoryRow(q + 1, q + 1, 1, q, 0)] : q \in {0, 3, 8} }

GroupNames(companyId) ==
    { GroupName(p) : p \in { q \in products :
                               \E x \in AlertedPairs(companyId) : x[1] = q.id } }

\* C23: a summary has one row for each category name of an alerted pair of
\* the company, 'Uncategorized' standing for no category, and no other row;
\* a row counts the alerted pairs filed under its name, so that every pair
\* is counted once and the rows' total_alerts add up to the number of
\* alerted pairs, which is the total of the alert list; the rows are in
\* non-increasing order of total_alerts.
C23_SummaryGroupsTheAlerts ==
    /\ HasSummary =>
          /\ { reader.rows[n].category : n \in 1..Len(reader.rows) }
                = GroupNames(reader.companyId)
          /\ Len(reader.rows) = Cardinality(GroupNames(reader.companyId))
          /\ \A n \in 1..Len(reader.rows) :
                reader.rows[n].total_alerts =
                    Cardinality(GroupStocks(reader.companyId, reader.rows[n].category))
          /\ TotalAlerts(reader.rows) = Cardinality(AlertedPairs(reader.companyId))
          /\ TotalAlerts(reader.rows) = CountQuery(reader.companyId)
          /\ \A n \in 1..(Len(reader.rows) - 1) :
                reader.rows[n].total_alerts >= reader.rows[n + 1].total_alerts
    /\ (HasAlerts /\ reader.status = 200) =>
          \A rows \in SummaryQuery(reader.companyId) :
              TotalAlerts(rows) = reader.total

\* a summary of five alerts in three groups was sent: three Accessories
\* first, then Hardware and Uncategorized with one each, in either order
C23_Witness ==
    /\ HasSummary
    /\ Len(reader.rows) = 3
    /\ reader.rows[1].category = "Accessories"
    /\ reader.rows[1].total_alerts = 3
    /\ reader.rows[3].category = "Uncategorized"
    /\ TotalAlerts(reader.rows) = 5
    /\ CountQuery(reader.companyId) = 5

(***************************************************************************)
(* The audit trail                                                         *)
(***************************************************************************)
\* the committed movements of an inventory record
MovementsOfRecord(i) == { m \in movements : m.inventoryId = i.id }

\* the latest of them
LatestMovement(i) ==
    CHOOSE m \in MovementsOfRecord(i) : \A n \in MovementsOfRecord(i) : n.id <= m.id

\* every inventory record has a movement, and its quantity is the
\* newQuantity of the latest
EveryRecordAudited ==
    \A i \in inventory :
        /\ MovementsOfRecord(i) # {}
        /\ i.quantity = LatestMovement(i).newQuantity

ValidCredential(h) ==
    /\ h.scheme = "Bearer"
    /\ h.token.present
    /\ h.token.signed
    /\ ~ h.token.expired
    /\ \E k \in Company : k.id = h.token.companyId /\ k.isActive

DanglingReference(c) ==
    \/ /\ req[c].body.categoryId # Undefined
       /\ ~ \E k \in ProductCategory : k.id = req[c].body.categoryId
    \/ /\ req[c].body.supplierId # Undefined
       /\ ~ \E s \in Supplier : s.id = req[c].body.supplierId

\* the body names a supplier that exists and is not active
InactiveSupplier(c) ==
    \E s \in Supplier : s.id = req[c].body.supplierId /\ ~ s.isActive

\* the call was answered 400 'Invalid reference' and none of its rows is
\* committed
RejectedReference(c) ==
    /\ res[c].status = 400
    /\ res[c].error = "Invalid reference"
    /\ ProductsOf(c) = {}
    /\ \A p \in products : p.sku = req[c].body.sku => p.id # loc[c].productId
    /\ \A i \in inventory : i.id # loc[c].inventoryId
    /\ \A m \in movements : \A i \in tx[c].inventory : m.inventoryId # i.id

\* C26: a finished call that is valid but for its categoryId or supplierId
\* (schema-valid body, warehouse of the caller, SKU of no other product, no
\* storage fault), and whose categoryId or supplierId names a row that does
\* not exist or a supplier that is not active, was answered 400 'Invalid
\* reference' and has left no product, inventory record or movement.
C26_InvalidReferenceRejected ==
    \A c \in Calls :
        ( /\ Finished(c)
          /\ SchemaValid(c)
          /\ WarehouseValid(c)
          /\ ~ SkuTakenByOther(c)
          /\ ~ StorageFault(c)
          /\ DanglingReference(c) \/ InactiveSupplier(c) )
        => RejectedReference(c)

(***************************************************************************)
(* The fallback of the projection                                          *)
(***************************************************************************)
\* C27 as stated: every alert of a response is of a pair with a sale in the
\* window and a strictly positive average of daily sales, so that none owes
\* its days_until_stockout to the branch for an average of zero.
C27_FallbackIsDead ==
    HasAlerts =>
        \A n \in 1..Len(reader.rows) :
            LET a == reader.rows[n]
            IN /\ WindowSales(a.product_id, a.warehouse_id) # {}
               /\ AvgDailySales(a.product_id, a.warehouse_id) > 0

\* C27 amended: every alert of a response is of a pair with a sale dated
\* on or after the day 30 days before today; the average of its daily sales
\* is positive exactly when the units of those sales add up to more than 0;
\* otherwise the alert carries the fallback, 90 days for a positive stock
\* and 0 for none.
C27_FallbackOnlyWithoutUnits ==
    HasAlerts =>
        \A n \in 1..Len(reader.rows) :
            LET a == reader.rows[n]
                sold == TotalSold(WindowSales(a.product_id, a.warehouse_id))
            IN /\ WindowSales(a.product_id, a.warehouse_id) # {}
               /\ AvgDailySales(a.product_id, a.warehouse_id) > 0 <=> sold > 0
               /\ sold <= 0 =>
                     a.days_until_stockout = IF AvailableStock(a) > 0 THEN 90 ELSE 0

\* an alert was sent for a pair with a stock of 3 whose one sale in the
\* window is of no unit: 90 days
C27_Witness ==
    /\ HasAlerts
    /\ \E n \in 1..Len(reader.rows) :
          /\ reader.rows[n].days_until_stockout = 90
          /\ reader.rows[n].current_stock = 3
          /\ \E s \in WindowSales(reader.rows[n].product_id,
                                  reader.rows[n].warehouse_id) : s.quantitySold = 0
          /\ TotalSold(WindowSales(reader.rows[n].product_id,
                                   reader.rows[n].warehouse_id)) = 0

(***************************************************************************)
(* Pages fetched one request each                                          *)
(***************************************************************************)
\* the pairs that the list query selects for a company
QualifyingPairs(companyId) ==
    { <<j.p.id, j.w.id>> : j \in ListSelected(companyId) }

\* C28: in one state of the database and for one page size, the page that
\* a response carries shares no pair with any page of another number that
\* another request may be answered with, and when the pages are two, the
\* page of the response and any answer to the other page hold together
\* every pair that the query selects.
C28_PagesPartition ==
    (HasAlerts /\ reader.status = 200) =>
        /\ \A q \in 1..reader.pages : q # reader.page =>
              \A other \in LowStockQuery(reader.companyId, reader.limit,
                                         Offset(q, reader.limit)) :
                  PairsOf(reader.rows) \cap PairsOf(other) = {}
        /\ (reader.pages = 2 /\ reader.page \in 1..2) =>
              \A other \in LowStockQuery(reader.companyId, reader.limit,
                                         Offset(3 - reader.page, reader.limit)) :
                  PairsOf(reader.rows) \cup PairsOf(other)
                      = QualifyingPairs(reader.companyId)

(***************************************************************************)
(* One end of the transaction and one response for each call               *)
(***************************************************************************)
\* the call is about to call transaction.rollback()
AboutToRollBack(c) == pc[c] \in {"rollback", "catch"}

\* C29: a call rolls back only a transaction that is still open; a call
\* that commits holds its product, inventory and movement rows; and a call
\* that has ended has a committed or rolled back transaction and has sent
\* a response, whichever way it ended.
C29_OneEndOneResponse ==
    \A c \in Calls :
        /\ AboutToRollBack(c) => tx[c].state = "open"
        /\ pc[c] = "commit" =>
              /\ tx[c].state = "open"
              /\ tx[c].products # {} /\ tx[c].inventory # {} /\ tx[c].movements # {}
        /\ Finished(c) =>
              /\ tx[c].state \in {"commit", "rollback"}
              /\ res[c] # NoResponse

(***************************************************************************)
(* Concurrent calls for different SKUs                                     *)
(***************************************************************************)
\* no other call that has started asks for the SKU of call c
SkuOfItsOwn(c) ==
    \A d \in Calls \ {c} : Started(d) => req[d].body.sku # req[c].body.sku

\* call c would succeed if it ran alone
ValidAlone(c) ==
    /\ Started(c)
    /\ SchemaValid(c)
    /\ WarehouseValid(c)
    /\ ReferencesExist(c)
    /\ ~ \E p \in SeedProducts : p.sku = req[c].body.sku

\* C30: a call that would succeed alone and whose SKU no other call asks
\* for never waits for another call at either insert, and once it has
\* ended without a storage fault it has succeeded and its own product,
\* inventory record and movement are committed, whatever the other calls
\* do, in the same warehouse or another, for the same company or another.
C30_DistinctSkusDoNotInterfere ==
    \A c \in Calls :
        (ValidAlone(c) /\ SkuOfItsOwn(c)) =>
            /\ pc[c] = "create" => ~ Blocked(c, Value(c).sku)
            /\ pc[c] = "inventory" =>
                  /\ ~ InventoryBlocked(c, loc[c].productId, Value(c).warehouseId)
                  /\ ~ InventoryUniqueViolation(loc[c].productId, Value(c).warehouseId)
            /\ (Finished(c) /\ ~ StorageFault(c)) => Created(c)

\* two calls of one company for different SKUs in the same warehouse ran
\* interleaved (the first to insert its product was the second to insert
\* its inventory record) and both created their rows
C30_Witness ==
    \E c, d \in Calls :
        /\ c # d
        /\ Created(c) /\ Created(d)
        /\ req[c].body.sku # req[d].body.sku
        /\ req[c].body.warehouseId = req[d].body.warehouseId
        /\ loc[c].productId < loc[d].productId
        /\ loc[c].inventoryId > loc[d].inventoryId

\* the same for two calls of different companies, each in its warehouse
C30_WitnessTwoCompanies ==
    \E c, d \in Calls :
        /\ Created(c) /\ Created(d)
        /\ req[c].body.sku # req[d].body.sku
        /\ req[c].user.companyId # req[d].user.companyId
        /\ loc[c].productId < loc[d].productId
        /\ loc[c].inventoryId > loc[d].inventoryId

====
